---- MODULE Spec2Model ----
(***************************************************************************)
(* jutella-xmpp: the XMPP agent (src/src/xmpp.rs), the chatbot engine      *)
(* (src/src/engine/mod.rs) and the per-peer chat handlers                  *)
(* (src/src/engine/handler.rs), joined by bounded tokio mpsc channels.     *)
(*                                                                         *)
(* Everything runs as one cooperative task (main's select! polls           *)
(* Xmpp::run and ChatbotEngine::run, the engine's select! polls the        *)
(* handlers in handlers_futures), so control changes hands only at an      *)
(* .await.  One action is one select! branch of a run loop, from the       *)
(* point it is taken to the next iteration of the loop.  The awaits        *)
(* inside a branch of Xmpp::run (send_stanza, the reconnect sleep) touch   *)
(* only state private to the agent, so a branch is taken as one step.      *)
(* The handler is split at request_completion().await, the one await       *)
(* during which it holds a dequeued request.                               *)
(***************************************************************************)
EXTENDS Integers, Sequences, FiniteSets, TLC

\* ------------------------------------------------------------------ bounds
\* Channel capacities, scaled down (10 at engine/mod.rs:42, 1024 at xmpp.rs:53).
REQUESTS_CHANNEL_SIZE == 2
RESPONSES_CHANNEL_SIZE == 1

\* ------------------------------------------------------------- value sets
NoneVal == "None"

\* allowed_users of the configuration: the keys of Xmpp::request_txs_map.
AllowedUsers == {"a@x", "b@x"}
\* A contact that is not in the configuration.
Stranger == "z@x"
Jids == AllowedUsers \cup {Stranger}

\* Full JIDs as <<bare, resource>>.
FullJids == {<<"a@x", "phone">>, <<"b@x", "">>, <<Stranger, "pc">>}

\* A message without a from attribute (Option::None).
NoFrom == <<>>

\* Jid::to_bare
to_bare(jid) == jid[1]

\* message.bodies: a map from xml:lang to the body text, as a set of pairs.
BodyMaps == { {}, {<<"", "hello">>}, {<<"", "">>}, {<<"en", "hello">>} }

\* BTreeMap::get on message.bodies
bodies_get(bodies, lang) ==
    IF \E b \in bodies : b[1] = lang
    THEN (CHOOSE b \in bodies : b[1] = lang)[2]
    ELSE NoneVal

\* An inbound message stanza, as decoded by XmppMessage::try_from.
Stanza(from, type_, bodies, payloads, id) ==
    [from |-> from, type_ |-> type_, bodies |-> bodies, payloads |-> payloads, id |-> id]

Hello == {<<"", "hello">>}

\* The plain chat messages of one configured peer, with or without an id.
ChatStanzas ==
    {Stanza(<<"a@x", "phone">>, "chat", Hello, <<>>, i) : i \in {NoneVal, "m1"}}

\* The plain chat messages of both configured peers.
PeerStanzas ==
    {Stanza(f, "chat", Hello, <<>>, NoneVal) :
        f \in {<<"a@x", "phone">>, <<"b@x", "">>}}

\* Every shape of message, from one configured peer, from a stranger and
\* without a sender.
AnyStanzas ==
    {Stanza(f, t, b, p, "m1") :
        f \in {NoFrom, <<"a@x", "phone">>, <<Stranger, "pc">>},
        t \in {"chat", "groupchat"},
        b \in BodyMaps,
        p \in {<<>>, <<"encrypted">>}}

\* One accepted request is followed through the pipeline: it carries the
\* tag "r1".  The requests that the same peer submits after it carry "late",
\* every other request carries NoTag.
NoTag == "-"
Tags == {NoTag, "r1", "late"}

\* Outcomes of ChatClient::request_completion.
\* The value of h_req while no completion call is in flight.
NoRequest == [jid |-> NoneVal, request |-> NoneVal, tag |-> NoTag]
CompletionOk == [response |-> "hi", tokens_in |-> 5, tokens_in_cached |-> NoneVal,
                 tokens_out |-> 3, tokens_reasoning |-> NoneVal]
CompletionResults == {[ok |-> TRUE, value |-> CompletionOk],
                      [ok |-> FALSE, error |-> "timeout"]}

\* ------------------------------------------------------------------ state
VARIABLES
    \* Xmpp
    client,             \* the transport client: "connecting" | "connected"
    online,             \* Xmpp::online
    clogged_engine,     \* Xmpp::clogged_engine
    pending_composing,  \* Xmpp::pending_composing: the peers with an armed timer
    xmpp_result,        \* Xmpp::run: "running" | "ok" | "err"
    \* channels
    request_rx,         \* requests channel, Xmpp -> ChatbotEngine
    response_rx,        \* responses channel, handlers -> Xmpp
    handler_rx,         \* per-handler requests channel, engine -> handler
    \* ChatbotEngine
    request_txs,        \* ChatbotEngine::request_txs: the jids with a sender
    handlers_futures,   \* ChatbotEngine::handlers_futures: the jids with a task
    engine_result,      \* ChatbotEngine::run: "running" | "ok" | "err"
    \* ChatbotHandler, per jid
    h_pc,               \* "absent" | "recv" | "completion" | "ok" | "err"
    h_req,              \* the request whose completion call is in flight
    h_clogged,          \* ChatbotHandler::clogged
    \* what the last step did
    ops,                \* the agent's operations in program order
    log,                \* the tracing events emitted
    \* history
    hist,               \* the request tagged "r1": its jid (NoneVal until it is
                        \* accepted) and how often, up to 2, it was dequeued by a
                        \* handler, answered by a response built, enqueued as a
                        \* response, sent as a chat message, dropped, and
                        \* whether its response was enqueued while offline
    episode,            \* the jids whose handler channel the engine has found full
                        \* and that has been full ever since
    \* the far ends of the two channels that main creates
    closed              \* the ends dropped by their owner when a run loop is
                        \* driven on its own: "response_tx" (every sender of
                        \* responses), "response_rx", "request_tx" (every
                        \* sender of requests); empty under main, where the
                        \* loops own these ends

vars == <<client, online, clogged_engine, pending_composing, xmpp_result,
          request_rx, response_rx, handler_rx, request_txs, handlers_futures,
          engine_result, h_pc, h_req, h_clogged, ops, log,
          hist, episode, closed>>

xmppVars == <<client, online, clogged_engine, pending_composing, xmpp_result>>
engineVars == <<request_txs, handlers_futures, engine_result>>
handlerVars == <<h_pc, h_req, h_clogged>>
historyVars == <<hist, episode>>

\* --------------------------------------------------------------- channels
\* A variant of try_send on a channel without a capacity.
try_send_unbounded(q, cap, rx_alive, msg) ==
    IF ~rx_alive THEN [res |-> "closed", q |-> q]
    ELSE [res |-> "ok", q |-> Append(q, msg)]

\* tokio::sync::mpsc::Sender::try_send: Closed when the receiver is gone,
\* Full when the buffer holds `cap` messages, else the message is appended.
try_send(q, cap, rx_alive, msg) ==
    IF ~rx_alive THEN [res |-> "closed", q |-> q]
    ELSE IF Len(q) >= cap THEN [res |-> "full", q |-> q]
    ELSE [res |-> "ok", q |-> Append(q, msg)]

\* History: one more `field` event of the request, if it is tagged "r1".
Count(h, tag, field) ==
    IF tag # "r1" THEN h
    ELSE [h EXCEPT ![field] = IF @ < 2 THEN @ + 1 ELSE @]

\* main: the select! over xmpp.run() and chatbot_engine.run() returns, and
\* the process ends, as soon as either of them returns.
Running == xmpp_result = "running" /\ engine_result = "running"

\* The receiver of a handler's channel lives as long as its run loop.
HandlerAlive(jid) == h_pc[jid] \in {"recv", "completion"}

\* The state in which Xmpp::run and ChatbotEngine::run have the results
\* given and own nothing: at the start (Xmpp::new, ChatbotEngine::new), and at
\* the end, when main returns and drops the agent, the engine, its handlers
\* and the channels.
Fresh(xmpp_res, engine_res) ==
    /\ client = "connecting"
    /\ online = FALSE
    /\ clogged_engine = FALSE
    /\ pending_composing = {}
    /\ xmpp_result = xmpp_res
    /\ request_rx = <<>>
    /\ response_rx = <<>>
    /\ handler_rx = [j \in Jids |-> <<>>]
    /\ request_txs = {}
    /\ handlers_futures = {}
    /\ engine_result = engine_res
    /\ h_pc = [j \in Jids |-> "absent"]
    /\ h_req = [j \in Jids |-> NoRequest]
    /\ h_clogged = [j \in Jids |-> FALSE]
    /\ ops = <<>>
    /\ log = <<>>
    /\ hist = [jid |-> NoneVal, dequeued |-> 0, produced |-> 0,
               enqueued |-> 0, answered |-> 0, dropped |-> 0,
               offline |-> FALSE]
    /\ episode = {}
    /\ closed = {}

Init == Fresh("running", "running")

\* A variant of Exit in which only the agent's loop stops and the engine
\* and its handlers are left as they are.
ExitXmppOnly(xmpp_res, engine_res) ==
    /\ xmpp_result' = xmpp_res
    /\ UNCHANGED <<client, online, clogged_engine, pending_composing,
                   request_rx, response_rx, handler_rx, engineVars,
                   handlerVars, ops, log, historyVars, closed>>

\* main returns with the results given: the process ends.
Exit(xmpp_res, engine_res) ==
    /\ client' = "connecting"
    /\ online' = FALSE
    /\ clogged_engine' = FALSE
    /\ pending_composing' = {}
    /\ xmpp_result' = xmpp_res
    /\ request_rx' = <<>>
    /\ response_rx' = <<>>
    /\ handler_rx' = [j \in Jids |-> <<>>]
    /\ request_txs' = {}
    /\ handlers_futures' = {}
    /\ engine_result' = engine_res
    /\ h_pc' = [j \in Jids |-> "absent"]
    /\ h_req' = [j \in Jids |-> NoRequest]
    /\ h_clogged' = [j \in Jids |-> FALSE]
    /\ ops' = <<>>
    /\ log' = <<>>
    /\ hist' = [jid |-> NoneVal, dequeued |-> 0, produced |-> 0,
                enqueued |-> 0, answered |-> 0, dropped |-> 0,
                offline |-> FALSE]
    /\ episode' = {}
    /\ closed' = {}

\* ------------------------------------------------------------------- Xmpp
\* A variant of request_txs_map in which every contact has a sender.
request_txs_map_open == [j \in Jids |-> "request_rx"]

\* The requests channel of Xmpp: every sender of request_txs_map feeds the
\* request_rx of the engine, whose buffer holds REQUESTS_CHANNEL_SIZE messages
\* (the size Xmpp reports when it finds the channel full).
request_txs_map == [j \in AllowedUsers |-> "request_rx"]

\* The orders in which HashMap::keys can yield the keys of request_txs_map.
KeyOrders ==
    {s \in [1..Cardinality(AllowedUsers) -> AllowedUsers] :
        \A i, j \in DOMAIN s : s[i] = s[j] => i = j}

\* The effect of the agent's operations on pending_composing, in order.
RECURSIVE ApplyPending(_, _)
ApplyPending(pending, os) ==
    IF os = <<>> THEN pending
    ELSE LET o == Head(os)
             next == IF o[1] = "pending_insert" THEN pending \cup {o[2]}
                     ELSE IF o[1] \in {"pending_remove", "pending_fired"}
                          THEN pending \ {o[2]}
                     ELSE pending
         IN  ApplyPending(next, Tail(os))

\* Xmpp::process_xmpp_message, the checks that precede the request.
Classify(message) ==
    IF message.from = NoFrom THEN "no_from"
    ELSE IF to_bare(message.from) \notin DOMAIN request_txs_map THEN "unknown_user"
    ELSE IF message.type_ # "chat" THEN "not_chat"
    ELSE IF bodies_get(message.bodies, "") = NoneVal THEN "no_body"
    ELSE IF \E i \in DOMAIN message.payloads : message.payloads[i] = "encrypted"
         THEN "encrypted"
    ELSE "request"

\* The tracing event of each early return of process_xmpp_message.
ClassifyLog(message) ==
    LET c == Classify(message) IN
    IF c = "no_from" THEN <<<<"trace", "xmpp message without from field", NoneVal>>>>
    ELSE IF c = "unknown_user"
         THEN <<<<"trace", "message from unknown user", to_bare(message.from)>>>>
    ELSE IF c = "not_chat"
         THEN <<<<"warn", "not a chat message received", to_bare(message.from)>>>>
    ELSE IF c = "no_body"
         THEN <<<<"trace", "chat message without a body", to_bare(message.from)>>>>
    ELSE IF c = "encrypted"
         THEN <<<<"debug", "encrypted message", to_bare(message.from)>>>>
    ELSE <<<<"debug", "request", to_bare(message.from)>>>>

\* The reply to a message with an encrypted payload.
EncryptedNotice(bare_jid) ==
    <<<<"message", bare_jid, "[ERROR] Encrypted messages are not supported">>>>

\* The RequestMessage built from an accepted message (tag: history only).
MakeRequest(message, tag) ==
    [jid |-> to_bare(message.from),
     request |-> bodies_get(message.bodies, ""),
     tag |-> tag]

\* The tags that the next accepted request of `jid` may carry.
FreeTags(jid) ==
    IF hist.jid = NoneVal THEN {NoTag, "r1"}
    ELSE IF hist.jid = jid THEN {"late"}
    ELSE {NoTag}

\* A variant of AcceptedOps that sends the marker whether or not the message
\* has an id.
AcceptedOpsMarkAlways(message) ==
    << <<"pending_insert", to_bare(message.from)>>,
       <<"displayed", to_bare(message.from), message.id>> >>

\* Xmpp::process_xmpp_message, the Ok arm of try_send.
AcceptedOps(message) ==
    <<<<"pending_insert", to_bare(message.from)>>>>
    \o (IF message.id # NoneVal
        THEN <<<<"displayed", to_bare(message.from), message.id>>>>
        ELSE <<>>)

\* A variant of CloggedEngineLog that logs every dropped request.
CloggedEngineLogEvery(jid) ==
    <<<<"error", "requests channel clogged", jid>>>>

\* Xmpp::process_xmpp_message, the Full arm of try_send: the events logged.
CloggedEngineLog(jid) ==
    IF ~clogged_engine THEN <<<<"error", "requests channel clogged", jid>>>> ELSE <<>>

\* Xmpp::process_xmpp_message
ProcessXmppMessage(message, tag) ==
    LET c == Classify(message) IN
    IF c \in {"no_from", "unknown_user", "not_chat", "no_body"} THEN
        /\ ops' = <<>>
        /\ log' = ClassifyLog(message)
        /\ tag = NoTag
        /\ UNCHANGED <<online, clogged_engine, pending_composing, xmpp_result,
                       request_rx, historyVars>>
    ELSE IF c = "encrypted" THEN
        /\ ops' = EncryptedNotice(to_bare(message.from))
        /\ log' = ClassifyLog(message)
        /\ tag = NoTag
        /\ UNCHANGED <<online, clogged_engine, pending_composing, xmpp_result,
                       request_rx, historyVars>>
    ELSE
        LET req == MakeRequest(message, tag)
            sent == try_send(request_rx, REQUESTS_CHANNEL_SIZE,
                             engine_result = "running", req)
        IN
        /\ tag \in (IF sent.res = "ok" THEN FreeTags(req.jid) ELSE {NoTag})
        /\ request_rx' = sent.q
        /\ ops' = IF sent.res = "ok" THEN AcceptedOps(message) ELSE <<>>
        /\ pending_composing' = ApplyPending(pending_composing, ops')
        /\ hist' = IF tag = "r1" THEN [hist EXCEPT !.jid = req.jid] ELSE hist
        /\ clogged_engine' = IF sent.res = "full" THEN TRUE ELSE clogged_engine
        /\ log' = ClassifyLog(message)
                  \o (IF sent.res = "full" THEN CloggedEngineLog(req.jid) ELSE <<>>)
        /\ xmpp_result' = IF sent.res = "closed" THEN "err" ELSE xmpp_result
        /\ UNCHANGED <<online, episode>>

\* Xmpp::run, the event branch, Event::Stanza with a message stanza.
EvStanza(message, tag) ==
    /\ Running
    /\ UNCHANGED closed
    /\ client = "connected"
    /\ ProcessXmppMessage(message, tag)
    /\ UNCHANGED <<client, response_rx, handler_rx, engineVars, handlerVars>>

\* Xmpp::run, the event branch, Event::Stanza with a stanza that is no
\* message (XmppMessage::try_from fails): ignored.
EvOtherStanza ==
    /\ Running
    /\ UNCHANGED closed
    /\ client = "connected"
    /\ ops' = <<>>
    /\ log' = <<>>
    /\ UNCHANGED <<xmppVars, request_rx, response_rx, handler_rx, engineVars,
                   handlerVars, historyVars>>

\* A variant of OnlineOps that sends the presence first.
OnlineOpsPresenceFirst(keys) ==
    <<<<"presence">>>>
    \o [i \in DOMAIN keys |-> <<"subscribed", keys[i]>>]
    \o [i \in DOMAIN keys |-> <<"chat_state", keys[i], "active">>]

\* A variant of DisconnectedLog that logs every Disconnected event.
DisconnectedLogEvery ==
    <<<<"error", "disconnected from XMPP server, reconnecting", NoneVal>>>>

\* pre_approve_presence_subscriptions, send_presence and
\* send_initial_chat_state_active, for the keys in the order `keys`.
OnlineOps(keys) ==
    [i \in DOMAIN keys |-> <<"subscribed", keys[i]>>]
    \o <<<<"presence">>>>
    \o [i \in DOMAIN keys |-> <<"chat_state", keys[i], "active">>]

\* Xmpp::process_xmpp_event, Event::Online.
EvOnline(keys) ==
    /\ Running
    /\ UNCHANGED closed
    /\ client = "connecting"
    /\ client' = "connected"
    /\ online' = TRUE
    /\ ops' = OnlineOps(keys)
    /\ log' = <<<<"info", "connected to XMPP server", NoneVal>>>>
    /\ UNCHANGED <<clogged_engine, pending_composing, xmpp_result, request_rx,
                   response_rx, handler_rx, engineVars, handlerVars, historyVars>>

\* Xmpp::process_xmpp_event, Event::Disconnected: the events logged.
DisconnectedLog ==
    IF online THEN <<<<"error", "disconnected from XMPP server, reconnecting", NoneVal>>>>
    ELSE <<>>

\* A variant of EvDisconnected that discards the responses waiting in the
\* channel.
EvDisconnectedFlush ==
    /\ Running
    /\ UNCHANGED closed
    /\ log' = DisconnectedLog
    /\ online' = FALSE
    /\ ops' = <<<<"sleep", "RECONNECT_DELAY">>, <<"reconnect">>>>
    /\ client' = "connecting"
    /\ response_rx' = <<>>
    /\ UNCHANGED <<clogged_engine, pending_composing, xmpp_result, request_rx,
                   handler_rx, engineVars, handlerVars, historyVars>>

\* A variant of EvDisconnected after which the client still yields stanzas.
EvDisconnectedDelivering ==
    /\ Running
    /\ UNCHANGED closed
    /\ log' = DisconnectedLog
    /\ online' = FALSE
    /\ ops' = <<<<"sleep", "RECONNECT_DELAY">>, <<"reconnect">>>>
    /\ UNCHANGED <<client, clogged_engine, pending_composing, xmpp_result,
                   request_rx, response_rx, handler_rx, engineVars,
                   handlerVars, historyVars>>

\* Xmpp::process_xmpp_event, Event::Disconnected, and Xmpp::reconnect.  The
\* event ends a connection or a connection attempt.
EvDisconnected ==
    /\ Running
    /\ UNCHANGED closed
    /\ log' = DisconnectedLog
    /\ online' = FALSE
    /\ ops' = <<<<"sleep", "RECONNECT_DELAY">>, <<"reconnect">>>>
    /\ client' = "connecting"
    /\ UNCHANGED <<clogged_engine, pending_composing, xmpp_result, request_rx,
                   response_rx, handler_rx, engineVars, handlerVars, historyVars>>

\* Xmpp::run, the event branch when the stream yields None.
EvStreamEnd ==
    /\ Running
    /\ Exit("err", "running")

\* A variant of ProcessResponseOps that sends the message first.
ProcessResponseOpsMessageFirst(resp) ==
    << <<"message", resp.jid, resp.response>>,
       <<"pending_remove", resp.jid>>,
       <<"chat_state", resp.jid, "active">> >>

\* A variant of ProcessResponseOps that leaves the timer of the peer armed.
ProcessResponseOpsKeepTimer(resp) ==
    << <<"chat_state", resp.jid, "active">>,
       <<"message", resp.jid, resp.response>> >>

\* Xmpp::process_response: the operations, in program order.
ProcessResponseOps(resp) ==
    << <<"pending_remove", resp.jid>>,
       <<"chat_state", resp.jid, "active">>,
       <<"message", resp.jid, resp.response>> >>

\* A variant of recv that takes the newest message.
recv_newest(q) == [msg |-> q[Len(q)], q |-> SubSeq(q, 1, Len(q) - 1)]

\* A variant of recv that leaves the message in the channel.
recv_peek(q) == [msg |-> Head(q), q |-> q]

\* tokio::sync::mpsc::Receiver::recv takes the oldest message.
recv(q) == [msg |-> Head(q), q |-> Tail(q)]

\* Xmpp::run, the response branch (polled only if self.online).
ProcessResponse ==
    /\ Running
    /\ UNCHANGED closed
    /\ online
    /\ response_rx # <<>>
    /\ LET got == recv(response_rx)
           resp == got.msg
       IN /\ response_rx' = got.q
          /\ ops' = ProcessResponseOps(resp)
          /\ pending_composing' = ApplyPending(pending_composing, ops')
          /\ log' = <<<<"debug", "response", resp.jid>>>>
          /\ hist' = Count(hist, resp.tag, "answered")
    /\ UNCHANGED <<client, online, clogged_engine, xmpp_result, request_rx,
                   handler_rx, engineVars, handlerVars, episode>>

\* A variant of ResponsesClosed that is polled in either connection state.
ResponsesClosedAnyState ==
    /\ Running
    /\ response_rx = <<>>
    /\ "response_tx" \in closed
    /\ Exit("ok", "running")

\* Xmpp::run, the response branch (polled only if self.online) when recv
\* yields None: every sender is gone and the channel is empty.
ResponsesClosed ==
    /\ Running
    /\ online
    /\ response_rx = <<>>
    /\ "response_tx" \in closed
    /\ Exit("ok", "running")

\* A variant of PresenceTickOps that sends the presence in either state.
PresenceTickOpsAlways == <<<<"presence">>>>

\* Xmpp::run, the presence_tick branch.
PresenceTickOps == IF online THEN <<<<"presence">>>> ELSE <<>>

\* A variant of PresenceTick that takes the agent offline.
PresenceTickOffline ==
    /\ Running
    /\ UNCHANGED closed
    /\ ops' = PresenceTickOps
    /\ log' = <<>>
    /\ online' = FALSE
    /\ UNCHANGED <<client, clogged_engine, pending_composing, xmpp_result,
                   request_rx, response_rx, handler_rx, engineVars,
                   handlerVars, historyVars>>

PresenceTick ==
    /\ Running
    /\ UNCHANGED closed
    /\ ops' = PresenceTickOps
    /\ log' = <<>>
    /\ UNCHANGED <<xmppVars, request_rx, response_rx, handler_rx, engineVars,
                   handlerVars, historyVars>>

\* Xmpp::run, the pending_composing branch: the timer of `jid` has elapsed
\* (COMPOSING_DELAY after it was armed) and its stream yields.  The stream
\* is then exhausted, and StreamMap drops it.
ComposingOps(jid) ==
    << <<"pending_fired", jid>>, <<"chat_state", jid, "composing">> >>

ComposingFire(jid) ==
    /\ Running
    /\ UNCHANGED closed
    /\ pending_composing # {}
    /\ jid \in pending_composing
    /\ ops' = ComposingOps(jid)
    /\ pending_composing' = ApplyPending(pending_composing, ops')
    /\ log' = <<>>
    /\ UNCHANGED <<client, online, clogged_engine, xmpp_result, request_rx,
                   response_rx, handler_rx, engineVars, handlerVars, historyVars>>

\* ---------------------------------------------------------- ChatbotEngine
\* ChatbotEngine::handle_request, the Full arm of try_send: the events logged.
EngineCloggedLog(jid) ==
    <<<<"debug", "chat instance requests channel clogged", jid>>>>

\* A variant of EngineSendLog in which the Closed arm logs nothing.
EngineSendLogQuiet(res, jid) ==
    IF res = "full" THEN EngineCloggedLog(jid) ELSE <<>>

\* ChatbotEngine::handle_request, the arms of try_send: the events logged.
EngineSendLog(res, jid) ==
    IF res = "full" THEN EngineCloggedLog(jid)
    ELSE IF res = "closed"
         THEN <<<<"error", "chat instance requests channel closed. this is a bug", jid>>>>
    ELSE <<>>

\* A variant of RegistryAfter that registers the jid before create_handler
\* has returned.
RegistryAfterEager(registry, jid, created) == registry \cup {jid}

\* A variant of RegistryAfter in which the new entry takes the place of the
\* entries held so far.
RegistryAfterForget(registry, jid, created) ==
    IF jid \in registry THEN registry
    ELSE IF created THEN {jid}
    ELSE registry

\* ChatbotEngine::handle_request: the registry after the lookup of `jid`,
\* where `created` tells whether create_handler returns Ok.
RegistryAfter(registry, jid, created) ==
    IF jid \in registry THEN registry
    ELSE IF created THEN registry \cup {jid}
    ELSE registry

\* A variant of request_txs_key in which every request goes to the handler
\* of one peer.
request_txs_key_shared(request) == "a@x"

\* ChatbotEngine::handle_request: the key under which the handler's sender is
\* looked up and, for a new peer, the jid given to create_handler.
request_txs_key(request) == request.jid

\* ChatbotEngine::handle_request.  create_handler fails when
\* ChatClient::new_with_client_and_tokenizer does.
HandleRequest(request, created) ==
    LET jid == request_txs_key(request)
        known == jid \in request_txs
    IN
    IF ~known /\ ~created THEN
        /\ log' = <<<<"error", "failed to create chat instance", jid>>>>
        /\ request_txs' = RegistryAfter(request_txs, jid, created)
        /\ handlers_futures' = RegistryAfter(handlers_futures, jid, created)
        /\ hist' = Count(hist, request.tag, "dropped")
        /\ UNCHANGED <<handler_rx, h_pc, engine_result, episode>>
    ELSE
        LET sent == try_send(IF known THEN handler_rx[jid] ELSE <<>>,
                             REQUESTS_CHANNEL_SIZE,
                             known => HandlerAlive(jid), request)
        IN
        /\ request_txs' = RegistryAfter(request_txs, jid, created)
        /\ handlers_futures' = IF known THEN handlers_futures
                               ELSE RegistryAfter(handlers_futures, jid, created)
        /\ h_pc' = IF known THEN h_pc ELSE [h_pc EXCEPT ![jid] = "recv"]
        /\ handler_rx' = [handler_rx EXCEPT ![jid] = sent.q]
        /\ log' = (IF known THEN <<>>
                   ELSE <<<<"info", "initialized chat instance", jid>>>>)
                  \o EngineSendLog(sent.res, jid)
        /\ hist' = IF sent.res = "ok" THEN hist
                   ELSE Count(hist, request.tag, "dropped")
        /\ episode' = IF sent.res = "full" THEN episode \cup {jid} ELSE episode
        /\ UNCHANGED engine_result

\* A variant of EngineRecv in which the engine takes the next request only
\* when no handler is in a completion call.
EngineRecvSerial(created) ==
    /\ Running
    /\ \A jid \in Jids : h_pc[jid] # "completion"
    /\ UNCHANGED closed
    /\ request_rx # <<>>
    /\ LET got == recv(request_rx)
       IN /\ request_rx' = got.q
          /\ HandleRequest(got.msg, created)
    /\ ops' = <<>>
    /\ UNCHANGED <<xmppVars, response_rx, h_req, h_clogged>>

\* ChatbotEngine::run, the request_rx branch with Some(request).
EngineRecv(created) ==
    /\ Running
    /\ UNCHANGED closed
    /\ request_rx # <<>>
    /\ LET got == recv(request_rx)
       IN /\ request_rx' = got.q
          /\ HandleRequest(got.msg, created)
    /\ ops' = <<>>
    /\ UNCHANGED <<xmppVars, response_rx, h_req, h_clogged>>

\* A variant of RequestsClosed in which the engine returns only when no
\* handler holds or works on a request.
RequestsClosedIdle ==
    /\ Running
    /\ request_rx = <<>>
    /\ "request_tx" \in closed
    /\ \A jid \in Jids : h_pc[jid] # "completion" /\ handler_rx[jid] = <<>>
    /\ Exit("running", "ok")

\* ChatbotEngine::run, the request_rx branch with None: every sender of
\* requests is gone and the channel is empty.
RequestsClosed ==
    /\ Running
    /\ request_rx = <<>>
    /\ "request_tx" \in closed
    /\ Exit("running", "ok")

\* A variant of EngineOnHandlerEnd in which every outcome of a handler ends
\* the engine's loop.
EngineOnHandlerEndAny(outcome) == outcome

\* ChatbotEngine::run, the handlers_futures branch: the pattern `Err(e)`
\* takes only the error of a handler that has ended, and returns it; the
\* result of the loop after a handler has ended with `outcome`.
EngineOnHandlerEnd(outcome) == IF outcome = "err" THEN "err" ELSE "running"

\* The task of `jid` ends with `outcome` ("ok" | "err").  The task is polled
\* from the handlers_futures branch of ChatbotEngine::run, which takes the
\* outcome in the same step; FuturesUnordered drops the task.
HandlerEnds(jid, outcome) ==
    IF EngineOnHandlerEnd(outcome) = "running"
    THEN /\ h_pc' = [h_pc EXCEPT ![jid] = outcome]
         /\ h_req' = [h_req EXCEPT ![jid] = NoRequest]
         /\ handlers_futures' = handlers_futures \ {jid}
         /\ handler_rx' = [handler_rx EXCEPT ![jid] = <<>>]
         /\ ops' = <<>>
         /\ log' = <<>>
         /\ UNCHANGED <<xmppVars, request_rx, response_rx, request_txs,
                        engine_result, h_clogged, historyVars, closed>>
    ELSE Exit("running", EngineOnHandlerEnd(outcome))

\* --------------------------------------------------------- ChatbotHandler
\* A variant of ErrorCompletion that keeps the usage of the last exchange.
ErrorCompletionUsage(error) ==
    [response |-> "[ERROR] " \o error,
     tokens_in |-> 5, tokens_in_cached |-> NoneVal,
     tokens_out |-> 3, tokens_reasoning |-> NoneVal]

\* ChatbotHandler::handle_request, the unwrap_or_else on the API error.
ErrorCompletion(error) ==
    [response |-> "[ERROR] " \o error,
     tokens_in |-> 0, tokens_in_cached |-> NoneVal,
     tokens_out |-> 0, tokens_reasoning |-> NoneVal]

\* The Completion that handle_request goes on with.
CompletionOf(result) ==
    IF result.ok THEN result.value ELSE ErrorCompletion(result.error)

\* A variant of MakeResponse that addresses the response to the handler's
\* neighbour.
MakeResponseElsewhere(req, completion) ==
    [jid |-> "b@x",
     response |-> completion.response,
     tokens_in |-> completion.tokens_in,
     tokens_in_cached |-> completion.tokens_in_cached,
     tokens_out |-> completion.tokens_out,
     tokens_reasoning |-> completion.tokens_reasoning,
     tag |-> req.tag]

\* The ResponseMessage of handle_request (tag: history only).
MakeResponse(req, completion) ==
    [jid |-> req.jid,
     response |-> completion.response,
     tokens_in |-> completion.tokens_in,
     tokens_in_cached |-> completion.tokens_in_cached,
     tokens_out |-> completion.tokens_out,
     tokens_reasoning |-> completion.tokens_reasoning,
     tag |-> req.tag]

\* A variant of HandlerRecv in which the handler takes the next request
\* whether or not its previous call has returned.
HandlerRecvWhileBusy(jid) ==
    /\ Running
    /\ h_pc[jid] \in {"recv", "completion"}
    /\ handler_rx[jid] # <<>>
    /\ LET got == recv(handler_rx[jid])
           req == got.msg
       IN IF req.jid # jid
          THEN HandlerEnds(jid, "err")
          ELSE /\ handler_rx' = [handler_rx EXCEPT ![jid] = got.q]
               /\ hist' = Count(hist, req.tag, "dequeued")
               /\ episode' = episode \ {jid}
               /\ h_pc' = [h_pc EXCEPT ![jid] = "completion"]
               /\ h_req' = [h_req EXCEPT ![jid] = req]
               /\ log' = <<>>
               /\ ops' = <<>>
               /\ UNCHANGED <<xmppVars, request_rx, response_rx, engineVars,
                              h_clogged, closed>>

\* ChatbotHandler::run: recv yields a request; handle_request checks its jid
\* and calls request_completion.
HandlerRecv(jid) ==
    /\ Running
    /\ h_pc[jid] = "recv"
    /\ handler_rx[jid] # <<>>
    /\ LET got == recv(handler_rx[jid])
           req == got.msg
       IN IF req.jid # jid
          THEN HandlerEnds(jid, "err")
          ELSE /\ handler_rx' = [handler_rx EXCEPT ![jid] = got.q]
               /\ hist' = Count(hist, req.tag, "dequeued")
               /\ episode' = episode \ {jid}
               /\ h_pc' = [h_pc EXCEPT ![jid] = "completion"]
               /\ h_req' = [h_req EXCEPT ![jid] = req]
               /\ log' = <<>>
               /\ ops' = <<>>
               /\ UNCHANGED <<xmppVars, request_rx, response_rx, engineVars,
                              h_clogged, closed>>

\* ChatbotHandler::run when recv yields None: run returns Ok(()).  The engine
\* keeps the sender of every handler it has created (request_txs), so under
\* ChatbotEngine::run this does not happen; the step belongs only to the
\* specification that asks what the engine does if a handler ends all the
\* same.
HandlerReturnsOk(jid) ==
    /\ Running
    /\ h_pc[jid] = "recv"
    /\ handler_rx[jid] = <<>>
    /\ HandlerEnds(jid, "ok")

\* A variant of HandlerCloggedLog that logs every dropped response.
HandlerCloggedLogEvery(jid) ==
    <<<<"error", "responses channel clogged", jid>>>>

\* ChatbotHandler::handle_request, the Full arm: the events logged.
HandlerCloggedLog(jid) ==
    IF ~h_clogged[jid] THEN <<<<"error", "responses channel clogged", jid>>>> ELSE <<>>

\* ChatbotHandler::handle_request from the return of request_completion:
\* the response is built and try_send'ed, and run goes back to recv.
HandlerCompletion(jid, result) ==
    /\ Running
    /\ h_pc[jid] = "completion"
    /\ LET req == h_req[jid]
           resp == MakeResponse(req, CompletionOf(result))
           sent == try_send(response_rx, RESPONSES_CHANNEL_SIZE,
                            xmpp_result = "running" /\ "response_rx" \notin closed,
                            resp)
       IN IF sent.res = "closed" THEN HandlerEnds(jid, "err") ELSE
          /\ response_rx' = sent.q
          /\ hist' = LET h == Count(Count(hist, req.tag, "produced"), req.tag,
                                    IF sent.res = "ok" THEN "enqueued" ELSE "dropped")
                     IN  IF req.tag = "r1" /\ sent.res = "ok" /\ ~online
                         THEN [h EXCEPT !.offline = TRUE]
                         ELSE h
          /\ log' = (IF result.ok THEN <<>>
                     ELSE <<<<"warn", "error from chatbot API: " \o result.error, req.jid>>>>)
                    \o (IF sent.res = "full" THEN HandlerCloggedLog(req.jid) ELSE <<>>)
          /\ h_clogged' = IF sent.res = "full"
                          THEN [h_clogged EXCEPT ![jid] = TRUE]
                          ELSE h_clogged
          /\ h_pc' = [h_pc EXCEPT ![jid] = "recv"]
          /\ h_req' = [h_req EXCEPT ![jid] = NoRequest]
          /\ ops' = <<>>
          /\ UNCHANGED <<xmppVars, request_rx, handler_rx, engineVars, episode,
                         closed>>

\* ---------------------------------------------------------- specification
\* The steps of the program where the messages that arrive are `stanzas` and
\* the accepted requests are tagged with `tags`.
Steps(stanzas, tags) ==
    \/ \E message \in stanzas, tag \in tags : EvStanza(message, tag)
    \/ EvOtherStanza
    \/ \E keys \in KeyOrders : EvOnline(keys)
    \/ EvDisconnected
    \/ EvStreamEnd
    \/ ProcessResponse
    \/ PresenceTick
    \/ \E jid \in Jids : ComposingFire(jid)
    \/ \E created \in BOOLEAN : EngineRecv(created)
    \/ \E jid \in Jids : HandlerRecv(jid)
    \/ \E jid \in Jids, result \in CompletionResults : HandlerCompletion(jid, result)

\* One peer chats; one of its requests is followed through the pipeline.
Next == Steps(ChatStanzas, Tags)
Spec == Init /\ [][Next]_vars

\* Both peers chat over a session that stays connected.
NextPeers ==
    \/ \E message \in PeerStanzas : EvStanza(message, NoTag)
    \/ \E keys \in KeyOrders : EvOnline(keys)
    \/ ProcessResponse
    \/ \E jid \in Jids : ComposingFire(jid)
    \/ \E created \in BOOLEAN : EngineRecv(created)
    \/ \E jid \in Jids : HandlerRecv(jid)
    \/ \E jid \in Jids, result \in CompletionResults : HandlerCompletion(jid, result)
SpecPeers == Init /\ [][NextPeers]_vars

\* Fair scheduling: select! takes a branch that stays ready (the engine's
\* and the handlers' loops), the agent takes the response branch if it is
\* ready again and again, and the server accepts the connection in the end.
Fairness ==
    /\ WF_vars(\E created \in BOOLEAN : EngineRecv(created))
    /\ \A jid \in Jids : WF_vars(HandlerRecv(jid))
    /\ \A jid \in Jids : WF_vars(\E result \in CompletionResults : HandlerCompletion(jid, result))
    /\ SF_vars(ProcessResponse)
    /\ WF_vars(\E keys \in KeyOrders : EvOnline(keys))
SpecFair == Init /\ [][Next]_vars /\ Fairness

\* The classification of inbound messages: every shape of message.
NextInbound == Steps(AnyStanzas, {NoTag})
SpecInbound == Init /\ [][NextInbound]_vars

\* Every shape of message, with and without an id, while the engine takes
\* requests and no handler is scheduled yet.
MarkerStanzas == AnyStanzas \cup ChatStanzas
NextMarkers ==
    \/ \E message \in MarkerStanzas : EvStanza(message, NoTag)
    \/ \E keys \in KeyOrders : EvOnline(keys)
    \/ EvDisconnected
    \/ \E jid \in Jids : ComposingFire(jid)
    \/ \E created \in BOOLEAN : EngineRecv(created)
SpecMarkers == Init /\ [][NextMarkers]_vars

\* Xmpp::run driven on its own: the caller of Xmpp::new keeps the receiver
\* of the requests channel and the sender of the responses channel, sends
\* responses and may drop the sender (main.rs:74-90 hands these ends to the
\* engine instead).
ProducerSend(jid) ==
    /\ Running
    /\ "response_tx" \notin closed
    /\ LET resp == MakeResponse([jid |-> jid, request |-> "hello", tag |-> NoTag],
                                CompletionOk)
           sent == try_send(response_rx, RESPONSES_CHANNEL_SIZE, TRUE, resp)
       IN /\ sent.res = "ok"
          /\ response_rx' = sent.q
    /\ ops' = <<>>
    /\ log' = <<>>
    /\ UNCHANGED <<xmppVars, request_rx, handler_rx, engineVars, handlerVars,
                   historyVars, closed>>

ProducerDrop ==
    /\ Running
    /\ "response_tx" \notin closed
    /\ closed' = closed \cup {"response_tx"}
    /\ ops' = <<>>
    /\ log' = <<>>
    /\ UNCHANGED <<xmppVars, request_rx, response_rx, handler_rx, engineVars,
                   handlerVars, historyVars>>

\* Fair scheduling of the agent's loop: select! takes the response branch
\* if it stays ready.  Nothing obliges the server to accept a connection.
NextXmpp ==
    \/ \E message \in ChatStanzas : EvStanza(message, NoTag)
    \/ EvOtherStanza
    \/ \E keys \in KeyOrders : EvOnline(keys)
    \/ EvDisconnected
    \/ EvStreamEnd
    \/ ProcessResponse
    \/ ResponsesClosed
    \/ PresenceTick
    \/ \E jid \in Jids : ComposingFire(jid)
    \/ \E jid \in AllowedUsers : ProducerSend(jid)
    \/ ProducerDrop
SpecXmpp ==
    /\ Init /\ [][NextXmpp]_vars
    /\ WF_vars(ProcessResponse) /\ WF_vars(ResponsesClosed)

\* ChatbotEngine::run driven on its own: the caller of ChatbotEngine::new
\* keeps the sender of the requests channel and the receiver of the
\* responses channel, submits requests, takes responses and may drop either
\* end (main.rs:74-90 hands these ends to the agent instead).
SubmitterSend(jid) ==
    /\ Running
    /\ "request_tx" \notin closed
    /\ LET request == [jid |-> jid, request |-> "hello", tag |-> NoTag]
           sent == try_send(request_rx, REQUESTS_CHANNEL_SIZE, TRUE, request)
       IN /\ sent.res = "ok"
          /\ request_rx' = sent.q
    /\ ops' = <<>>
    /\ log' = <<>>
    /\ UNCHANGED <<xmppVars, response_rx, handler_rx, engineVars, handlerVars,
                   historyVars, closed>>

SubmitterDrop ==
    /\ Running
    /\ "request_tx" \notin closed
    /\ closed' = closed \cup {"request_tx"}
    /\ ops' = <<>>
    /\ log' = <<>>
    /\ UNCHANGED <<xmppVars, request_rx, response_rx, handler_rx, engineVars,
                   handlerVars, historyVars>>

ConsumerTake ==
    /\ Running
    /\ "response_rx" \notin closed
    /\ response_rx # <<>>
    /\ response_rx' = recv(response_rx).q
    /\ ops' = <<>>
    /\ log' = <<>>
    /\ UNCHANGED <<xmppVars, request_rx, handler_rx, engineVars, handlerVars,
                   historyVars, closed>>

ConsumerDrop ==
    /\ Running
    /\ "response_rx" \notin closed
    /\ closed' = closed \cup {"response_rx"}
    /\ response_rx' = <<>>
    /\ ops' = <<>>
    /\ log' = <<>>
    /\ UNCHANGED <<xmppVars, request_rx, handler_rx, engineVars, handlerVars,
                   historyVars>>

\* The engine and its handlers, with a fair select!, and with the step in
\* which a handler ends with Ok.
NextEngine ==
    \/ \E jid \in AllowedUsers : SubmitterSend(jid)
    \/ SubmitterDrop
    \/ ConsumerTake
    \/ ConsumerDrop
    \/ \E created \in BOOLEAN : EngineRecv(created)
    \/ RequestsClosed
    \/ \E jid \in Jids : HandlerRecv(jid)
    \/ \E jid \in Jids, result \in CompletionResults : HandlerCompletion(jid, result)
    \/ \E jid \in Jids : HandlerReturnsOk(jid)
SpecEngine ==
    /\ Init /\ [][NextEngine]_vars
    /\ WF_vars(\E created \in BOOLEAN : EngineRecv(created))
    /\ WF_vars(RequestsClosed)
    /\ \A jid \in Jids : WF_vars(HandlerRecv(jid))
    /\ \A jid \in Jids :
          WF_vars(\E result \in CompletionResults : HandlerCompletion(jid, result))

\* ------------------------------------------------------------- properties
\* The messages held by a channel.
ItemsOf(q) == {q[i] : i \in DOMAIN q}

\* How many messages of a channel carry the tag `tag`.
NumTag(q, tag) == Cardinality({i \in DOMAIN q : q[i].tag = tag})

\* C1: for a contact that is not configured, whatever messages arrive, no
\* request of it is in any requests channel, the engine has no sender and no
\* task for it, no handler of it exists, no response is addressed to it, no
\* composing timer is armed for it and no operation of the agent (a stanza
\* sent, a timer armed) names it.
C1_UnknownUserIgnored ==
    \A j \in Jids \ AllowedUsers :
        /\ \A r \in ItemsOf(request_rx) : r.jid # j
        /\ \A k \in Jids : \A r \in ItemsOf(handler_rx[k]) : r.jid # j
        /\ handler_rx[j] = <<>>
        /\ \A r \in ItemsOf(response_rx) : r.jid # j
        /\ j \notin request_txs
        /\ j \notin handlers_futures
        /\ h_pc[j] = "absent"
        /\ j \notin pending_composing
        /\ \A i \in DOMAIN ops : Len(ops[i]) >= 2 => ops[i][2] # j

\* A message of the unconfigured contact has just been ignored while a
\* request of a configured peer is on its way.
C1_Witness ==
    /\ log = <<<<"trace", "message from unknown user", Stranger>>>>
    /\ request_rx # <<>>

\* The followed request is held by a requests channel or by a handler.
Requested ==
    \/ NumTag(request_rx, "r1") > 0
    \/ \E j \in Jids : NumTag(handler_rx[j], "r1") > 0
    \/ \E j \in Jids : h_pc[j] = "completion" /\ h_req[j].tag = "r1"

\* The response to the followed request is held by the responses channel.
Responded == NumTag(response_rx, "r1") > 0

C4_ResponsesAnswerRequests ==
    /\ hist.produced <= hist.dequeued
    /\ hist.dequeued <= 1
    /\ hist.produced <= 1
    /\ hist.enqueued <= hist.produced
    /\ NumTag(response_rx, "r1") <= hist.enqueued
    /\ \A j \in Jids : h_pc[j] = "completion" => h_req[j].jid = j
    /\ \A r \in ItemsOf(response_rx) :
          /\ r.jid \in request_txs
          /\ r.tag = "r1" => r.jid = hist.jid

\* The response to the followed request is in the responses channel.
C4_Witness ==
    /\ hist.dequeued = 1
    /\ hist.produced = 1
    /\ Responded

\* The followed request has left the pipeline: answered, or dropped.
Settled == hist.answered = 1 \/ hist.dropped = 1

\* C3, amended: a request accepted by the agent is answered by at most one
\* chat message, and never both answered and dropped; under fair scheduling
\* it is in the end answered, or dropped (by the engine when the handler
\* cannot be created or its channel is full, by the handler when the
\* responses channel is full), or the process ends.
C3_AnsweredOnceOrDropped ==
    /\ [](hist.answered + hist.dropped <= 1)
    /\ (hist.jid # NoneVal) ~> (Settled \/ ~Running)

\* The followed request has been answered.
C3_Witness == hist.answered = 1 /\ hist.dropped = 0

\* C3 as stated: under fair scheduling every accepted request is answered in
\* the end, unless the process ends.
C3_AlwaysAnswered == (hist.jid # NoneVal) ~> (hist.answered = 1 \/ ~Running)

\* The step is a handler's return from a completion call that failed.
ApiErrorStep(j) ==
    /\ h_pc[j] = "completion"
    /\ log' # <<>>
    /\ log'[1] = <<"warn", "error from chatbot API: timeout", j>>

\* The response a handler builds for `req` when the completion call fails.
ErrorResponse(req) ==
    [jid |-> req.jid, response |-> "[ERROR] timeout",
     tokens_in |-> 0, tokens_in_cached |-> NoneVal,
     tokens_out |-> 0, tokens_reasoning |-> NoneVal,
     tag |-> req.tag]

\* C5: when the completion call of a handler fails, the handler goes back
\* to receiving (it neither ends nor fails, and the engine and the agent keep
\* running), and it has built one response for the jid of the request, with
\* the text "[ERROR] " followed by the error, tokens_in 0, tokens_out 0 and
\* no cached or reasoning tokens: that one response is appended to the
\* responses channel, unless the channel is full.
C5_ApiErrorAnsweredInBand ==
    [][ \A j \in Jids : ApiErrorStep(j) =>
          /\ h_pc'[j] = "recv"
          /\ engine_result' = "running" /\ xmpp_result' = "running"
          /\ j \in handlers_futures'
          /\ h_req[j].jid = j
          /\ IF Len(response_rx) < RESPONSES_CHANNEL_SIZE
             THEN response_rx' = Append(response_rx, ErrorResponse(h_req[j]))
             ELSE response_rx' = response_rx ]_vars

\* A completion call has just failed, its error response is in the
\* responses channel, and the handler has the next request to receive.
C5_Witness ==
    /\ log = <<<<"warn", "error from chatbot API: timeout", "a@x">>>>
    /\ response_rx # <<>>
    /\ response_rx[Len(response_rx)].response = "[ERROR] timeout"
    /\ h_pc["a@x"] = "recv"
    /\ handler_rx["a@x"] # <<>>

\* The step is the engine finding the handler channel of `j` full.
EngineFullStep(j) ==
    /\ engine_result = "running" /\ xmpp_result = "running"
    /\ engine_result' = "running" /\ xmpp_result' = "running"
    /\ request_rx # <<>>
    /\ Head(request_rx).jid = j
    /\ request_rx' = Tail(request_rx)
    /\ j \in request_txs
    /\ Len(handler_rx[j]) = REQUESTS_CHANNEL_SIZE

\* The engine's saturation event for `j` is among the events `events`.
SaturationLogged(events, j) ==
    \E i \in DOMAIN events :
        events[i] = <<"debug", "chat instance requests channel clogged", j>>

\* C6 as stated: when the engine submits a request to a handler channel that
\* is full, the channel is unchanged, the engine keeps running, and the
\* saturation event is logged for the first request dropped since the channel
\* became full and for no further one.
C6_OneSaturationLogPerEpisode ==
    [][ \A j \in Jids : EngineFullStep(j) =>
          /\ handler_rx' = handler_rx
          /\ engine_result' = "running"
          /\ SaturationLogged(log', j) <=> j \notin episode ]_vars

\* The step is the engine receiving a request of a jid without a sender.
EngineNewPeerStep(j) ==
    /\ engine_result = "running" /\ xmpp_result = "running"
    /\ engine_result' = "running" /\ xmpp_result' = "running"
    /\ request_rx # <<>>
    /\ Head(request_rx).jid = j
    /\ request_rx' = Tail(request_rx)
    /\ j \notin request_txs

\* C7: every request of a jid without a sender makes the engine call
\* create_handler.  If that fails, the failure is logged, the engine keeps
\* running, request_txs, handlers_futures, the handler channels and the
\* handlers are as before (none for that jid) and the request is gone; if it
\* succeeds, the jid has a sender and a task, and its channel holds the request.
C7_CreateHandlerFailure ==
    [][ \A j \in Jids : EngineNewPeerStep(j) =>
          \/ /\ log' = <<<<"error", "failed to create chat instance", j>>>>
             /\ engine_result' = "running"
             /\ request_txs' = request_txs /\ j \notin request_txs'
             /\ handlers_futures' = handlers_futures /\ j \notin handlers_futures'
             /\ handler_rx' = handler_rx
             /\ h_pc' = h_pc /\ h_pc'[j] = "absent"
          \/ /\ log' = <<<<"info", "initialized chat instance", j>>>>
             /\ request_txs' = request_txs \cup {j}
             /\ handlers_futures' = handlers_futures \cup {j}
             /\ handler_rx' = [handler_rx EXCEPT ![j] = <<Head(request_rx)>>]
             /\ h_pc' = [h_pc EXCEPT ![j] = "recv"] ]_vars

\* create_handler has just failed for a peer whose next request is already
\* waiting for the engine.
C7_Witness ==
    /\ log = <<<<"error", "failed to create chat instance", "a@x">>>>
    /\ "a@x" \notin request_txs
    /\ request_rx # <<>>
    /\ Head(request_rx).jid = "a@x"

\* C8: delivering a response removes the composing timer of its jid, then
\* sends the chat state "active" to the jid, then sends one message to the
\* jid with the response text as its body, and nothing else; afterwards no
\* timer is armed for the jid and the timers of the other jids are as before.
C8_ResponseDelivery ==
    [][ (/\ xmpp_result' = "running" /\ engine_result' = "running"
         /\ response_rx # <<>>
         /\ response_rx' = Tail(response_rx))
        => LET resp == Head(response_rx) IN
           /\ ops' = << <<"pending_remove", resp.jid>>,
                        <<"chat_state", resp.jid, "active">>,
                        <<"message", resp.jid, resp.response>> >>
           /\ resp.jid \notin pending_composing'
           /\ pending_composing' = pending_composing \ {resp.jid} ]_vars

\* A response has just been delivered to one peer while the composing timer
\* of the other peer is armed.
C8_Witness ==
    /\ Len(ops) = 3
    /\ ops[3] = <<"message", "a@x", "hi">>
    /\ pending_composing = {"b@x"}

\* The message comes from a configured peer and carries an encrypted payload.
EncryptedFromPeer(message) ==
    /\ message.from # NoFrom
    /\ to_bare(message.from) \in AllowedUsers
    /\ \E i \in DOMAIN message.payloads : message.payloads[i] = "encrypted"

\* C9 as stated: every message with an encrypted payload from a configured
\* peer is answered with the one notice that encryption is not supported and
\* does not enter the pipeline: no request is enqueued, no composing timer is
\* armed, no displayed marker is sent.
C9_EncryptedAlwaysNoticed ==
    [][ \A message \in AnyStanzas :
          (EncryptedFromPeer(message) /\ EvStanza(message, NoTag)) =>
            /\ ops' = <<<<"message", to_bare(message.from),
                          "[ERROR] Encrypted messages are not supported">>>>
            /\ request_rx' = request_rx
            /\ pending_composing' = pending_composing ]_vars

\* C10 as stated: a message adds a request to the requests channel only if
\* its sender is configured, its type is "chat" and it has a body that is
\* not empty.
C10_RequestsHaveText ==
    [][ \A message \in AnyStanzas :
          (EvStanza(message, NoTag) /\ request_rx' # request_rx) =>
            /\ message.from # NoFrom
            /\ to_bare(message.from) \in AllowedUsers
            /\ message.type_ = "chat"
            /\ \E b \in message.bodies : b[2] # "" ]_vars

\* ------------------------------------------------- the connection state
\* The sequence p is a prefix of the sequence q.
IsPrefix(p, q) == Len(p) <= Len(q) /\ SubSeq(q, 1, Len(p)) = p

\* C11, amended: a response that a handler enqueues while the agent is
\* offline is kept: no step taken while offline removes anything from the
\* responses channel, and under fair scheduling, once the agent is online
\* again, the response is sent to the peer as a chat message (or the
\* process ends first).
C11_OfflineResponseKept ==
    /\ [][ (~online /\ xmpp_result' = "running")
             => IsPrefix(response_rx, response_rx') ]_vars
    /\ (hist.offline /\ Responded) ~> (hist.answered = 1 \/ ~Running)

\* The response to the followed request was enqueued while the agent was
\* offline and has been sent to the peer.
C11_Witness == hist.offline /\ hist.answered = 1 /\ online

\* C11 as stated: a response enqueued while the agent is offline is never
\* sent to the peer.
C11_OfflineResponseLost == hist.offline => hist.answered = 0

\* The operations of the kinds given among the operations of a step.
OpsOfKind(kinds) == {i \in 1..Len(ops) : ops[i][1] \in kinds}

\* C12: a step that starts and ends offline takes no response out of the
\* responses channel and sends neither a chat message nor a presence; a
\* keep-alive tick sends nothing while offline and exactly one presence, and
\* nothing else, while online.
C12_OfflineSendsNothing ==
    [][ /\ (~online /\ ~online' /\ xmpp_result' = "running")
           => /\ IsPrefix(response_rx, response_rx')
              /\ OpsOfKind({"message", "presence"})' = {}
        /\ PresenceTick
           => ops' = IF online THEN <<<<"presence">>>> ELSE <<>> ]_vars

\* The agent is offline with a response waiting in the channel, and the
\* step just taken has sent nothing.
C12_Witness ==
    ~online /\ xmpp_result = "running" /\ response_rx # <<>>
            /\ ops = <<>> /\ log = <<>>

\* C13 as stated: a "composing" chat state is sent only while the agent is
\* online; no timer of pending_composing fires into a send while offline.
C13_ComposingOnlyOnline ==
    \A i \in 1..Len(ops) :
        (ops[i][1] = "chat_state" /\ ops[i][3] = "composing") => online

\* C14: the connection state is a boolean, false at the start; it becomes
\* true in exactly the steps that process an Online event and false in
\* exactly the steps that process a Disconnected event (or end the process);
\* no stanza, response, tick, timer, engine or handler step changes it.
C14_ConnectionState ==
    /\ ~online
    /\ [](online \in BOOLEAN)
    /\ [][ /\ (\E keys \in KeyOrders : EvOnline(keys)) <=> (~online /\ online')
           /\ (online /\ ~online' /\ xmpp_result' = "running") => EvDisconnected
           /\ EvDisconnected => ~online' ]_vars

\* The agent has been online, has gone offline on a Disconnected event, and
\* is online again.
C14_Witness ==
    online /\ hist.offline /\ log = <<<<"info", "connected to XMPP server", NoneVal>>>>

\* C20: a request is added to the requests channel only by a step that
\* starts and ends online, that is between an Online event and the next
\* Disconnected event; while the agent is offline the channel never grows.
C20_RequestsOnlyOnline ==
    [][ Len(request_rx') > Len(request_rx) => (online /\ online') ]_vars

\* The followed request was accepted while online and still waits in the
\* requests channel; the agent has gone offline since.
C20_Witness ==
    ~online /\ xmpp_result = "running" /\ NumTag(request_rx, "r1") > 0

\* ------------------------------------------------------------ the registry
\* The engine has logged the creation of the handler of j in the step taken.
InitializedLogged(events, j) ==
    \E i \in 1..Len(events) :
        events[i] = <<"info", "initialized chat instance", j>>

\* C19: the senders registered and the handler tasks held are the same set
\* of jids, all of them configured peers, and each of them has exactly one
\* handler, which is running; an entry appears only in an engine step that
\* creates the handler for the request at hand, and from then on stays: no
\* later step removes it, creates its handler again or ends its handler.
C19_OneActorPerPeer ==
    /\ [](/\ request_txs = handlers_futures
          /\ request_txs \subseteq AllowedUsers
          /\ \A j \in Jids : j \in request_txs <=> HandlerAlive(j))
    /\ [][ engine_result' = "running" /\ xmpp_result' = "running" =>
           \A j \in Jids :
              /\ j \in request_txs =>
                    /\ j \in request_txs' /\ j \in handlers_futures'
                    /\ ~InitializedLogged(log', j)
              /\ (j \notin request_txs /\ j \in request_txs') =>
                    /\ InitializedLogged(log', j)
                    /\ request_rx # <<>> /\ Head(request_rx).jid = j
                    /\ request_txs' = request_txs \cup {j} ]_vars

\* Both peers have a handler, and two requests of a@x wait in the channel
\* of its handler: the second was sent to the handler the first had created.
C19_Witness ==
    /\ request_txs = AllowedUsers
    /\ Len(handler_rx["a@x"]) = 2

\* ------------------------------------------------------------------ main
\* Nothing of the agent, the engine or the handlers is left.
AllDropped ==
    /\ ~online /\ pending_composing = {}
    /\ request_rx = <<>> /\ response_rx = <<>>
    /\ request_txs = {} /\ handlers_futures = {}
    /\ \A j \in Jids : h_pc[j] = "absent" /\ handler_rx[j] = <<>>

\* C16: every step is taken while both run loops are running; as soon as
\* one of them has returned, main has returned with the outcome of that
\* loop alone, and nothing of the other loop is left running.
C16_MainEndsWithEitherLoop ==
    /\ [](~Running => AllDropped)
    /\ [](xmpp_result = "running" \/ engine_result = "running")
    /\ [][Running]_vars

\* The agent's loop has returned an error and main has returned with it.
C16_Witness == xmpp_result = "err" /\ engine_result = "running" /\ AllDropped

\* ------------------------------------------------------- the end of run
\* C15, amended: Xmpp::run returns Ok only in a step taken online with the
\* responses channel empty and all its senders gone, and returns an error
\* exactly when the event stream ends; once the senders are gone and the
\* agent is online, under fair scheduling run returns or the agent goes
\* offline first.  While offline the closed channel is not polled.
C15_ReturnsOkOnlineOnly ==
    /\ [][ /\ xmpp_result' = "ok"
              => (online /\ response_rx = <<>> /\ "response_tx" \in closed)
           /\ xmpp_result' = "err" <=> EvStreamEnd ]_vars
    /\ ("response_tx" \in closed /\ online)
          ~> (xmpp_result # "running" \/ ~online)

\* run has returned Ok.
C15_Witness == xmpp_result = "ok" /\ engine_result = "running"

\* C15 as stated: once the senders of the responses channel are gone and
\* the channel is empty, run returns in the end, whatever the connection
\* state is.
C15_ReturnsOkOnceClosed ==
    ("response_tx" \in closed /\ response_rx = <<>> /\ Running)
        ~> (xmpp_result # "running")

\* ------------------------------------------------- the end of a handler
\* The engine takes a request of j, whose sender it holds and whose handler
\* has ended: try_send finds the channel closed.
EngineFindsClosed(j) ==
    /\ request_rx # <<>> /\ Head(request_rx).jid = j
    /\ j \in request_txs /\ ~HandlerAlive(j)
    /\ \E created \in BOOLEAN : EngineRecv(created)

HandlerFails(j) ==
    /\ h_pc[j] = "completion" /\ "response_rx" \in closed
    /\ \E result \in CompletionResults : HandlerCompletion(j, result)

NumPeers == Cardinality(AllowedUsers)

\* The operations os are the burst sent on connect: a pre-approval for every
\* configured peer, then one presence, then an "active" chat state for every
\* configured peer.
IsOnlineBurst(os) ==
    /\ Len(os) = 2 * NumPeers + 1
    /\ \A i \in 1..NumPeers : os[i][1] = "subscribed"
    /\ {os[i][2] : i \in 1..NumPeers} = AllowedUsers
    /\ os[NumPeers + 1] = <<"presence">>
    /\ \A i \in (NumPeers + 2)..(2 * NumPeers + 1) :
          os[i][1] = "chat_state" /\ os[i][3] = "active"
    /\ {os[i][2] : i \in (NumPeers + 2)..(2 * NumPeers + 1)} = AllowedUsers

\* C21: every step that processes an Online event sends exactly the burst,
\* in this order, within the step, and changes nothing but the connection
\* state: the timers, the saturation flag, the channels, the engine and the
\* handlers are as before, on the first connection and on every later one.
C21_OnlineBurst ==
    [][ (\E keys \in KeyOrders : EvOnline(keys)) =>
           /\ IsOnlineBurst(ops')
           /\ UNCHANGED <<clogged_engine, pending_composing, xmpp_result,
                          request_rx, response_rx, handler_rx, engineVars,
                          handlerVars>> ]_vars

\* The agent has just connected again: the followed request was accepted
\* during an earlier connection, which has ended since.
C21_Witness ==
    /\ online /\ hist.offline
    /\ IsOnlineBurst(ops)

\* The disconnection has been logged in the step taken.
DisconnectLogged(events) ==
    \E i \in 1..Len(events) :
        events[i] = <<"error", "disconnected from XMPP server, reconnecting", NoneVal>>

\* C22: the disconnection is logged only by a step that takes the agent
\* from online to offline, so at most once between two Online events;
\* every Disconnected event, also one that finds the agent offline, sleeps
\* for RECONNECT_DELAY and then makes a new client, and does nothing else:
\* the sleep is part of the step, so no response, tick or timer is
\* processed meanwhile.
C22_DisconnectLoggedOnce ==
    [][ /\ DisconnectLogged(log') => (online /\ ~online')
        /\ EvDisconnected =>
              /\ ops' = <<<<"sleep", "RECONNECT_DELAY">>, <<"reconnect">>>>
              /\ DisconnectLogged(log') <=> online
              /\ client' = "connecting"
              /\ UNCHANGED <<pending_composing, response_rx, request_rx>> ]_vars

\* A Disconnected event has just been processed without a log event: the
\* agent was offline already, after a connection during which the followed
\* request was accepted.
C22_Witness ==
    /\ ~online /\ xmpp_result = "running" /\ hist.jid # NoneVal
    /\ ops = <<<<"sleep", "RECONNECT_DELAY">>, <<"reconnect">>>>
    /\ log = <<>>

\* ------------------------------------------------------ the typing timers
\* The operation op is among the operations os.
HasOp(os, op) == \E i \in 1..Len(os) : os[i] = op

\* The step taken adds a request of p to the requests channel.
AcceptStep(p) ==
    /\ Len(request_rx') = Len(request_rx) + 1
    /\ request_rx'[Len(request_rx')].jid = p

\* The step taken takes a response for p out of the responses channel and
\* sends it.
DeliverStep(p) ==
    /\ response_rx # <<>> /\ Head(response_rx).jid = p
    /\ response_rx' = Tail(response_rx)
    /\ HasOp(ops', <<"message", p, Head(response_rx).response>>)

\* C23: the timer of a peer is armed in exactly the steps that add a request
\* of that peer to the requests channel (a dropped or rejected message arms
\* nothing), and a peer gets a pending timer in no other way; the step that
\* delivers a response to p leaves p without a timer; "composing" is sent
\* to p only by the timer of p, which is gone afterwards.  So from a
\* delivery to p until the next accepted request of p there is no timer of
\* p and no "composing" for p.
C23_TypingTimer ==
    [][ (xmpp_result' = "running" /\ engine_result' = "running") =>
          \A p \in Jids :
             /\ HasOp(ops', <<"pending_insert", p>>) <=> AcceptStep(p)
             /\ AcceptStep(p) => p \in pending_composing'
             /\ (p \notin pending_composing /\ p \in pending_composing')
                   => AcceptStep(p)
             /\ DeliverStep(p) => p \notin pending_composing'
             /\ HasOp(ops', <<"chat_state", p, "composing">>)
                   => (p \in pending_composing /\ p \notin pending_composing') ]_vars

\* The response to the followed request has just been delivered while a
\* later request of the peer is with the handler: the peer has no timer.
C23_Witness ==
    /\ hist.answered = 1
    /\ HasOp(ops, <<"pending_remove", "a@x">>)
    /\ "a@x" \notin pending_composing
    /\ h_pc["a@x"] = "completion"

\* ---------------------------------------------------- the displayed marker
\* C24: a step that processes a message sends a "displayed" marker if and
\* only if the message passes the classification as a request, its request
\* is added to the requests channel, and it has an id; the marker goes to
\* the sender and carries that id; no other step sends a marker.
C24_DisplayedMarker ==
    [][ /\ \A message \in MarkerStanzas :
              EvStanza(message, NoTag) =>
                 /\ OpsOfKind({"displayed"})' # {}
                      <=> /\ Classify(message) = "request"
                          /\ Len(request_rx) < REQUESTS_CHANNEL_SIZE
                          /\ message.id # NoneVal
                 /\ \A i \in OpsOfKind({"displayed"})' :
                       ops'[i] = <<"displayed", to_bare(message.from), message.id>>
        /\ OpsOfKind({"displayed"})' # {} => \E p \in AllowedUsers : AcceptStep(p) ]_vars

\* The requests channel is full, and the message just processed, a request
\* of a@x, has been dropped: no marker and no timer.
C24_Witness ==
    /\ clogged_engine /\ Len(request_rx) = REQUESTS_CHANNEL_SIZE
    /\ ops = <<>>
    /\ log # <<>> /\ log[1] = <<"debug", "request", "a@x">>

\* ------------------------------------------- the responses channel, full
\* The handler of j sends the response of the completion call that returns.
HandlerSendStep(j) ==
    /\ h_pc[j] = "completion"
    /\ \E result \in CompletionResults : HandlerCompletion(j, result)

\* The handler of j has logged the saturation in the step taken.
HandlerCloggedLogged(events, j) ==
    \E i \in 1..Len(events) :
        events[i] = <<"error", "responses channel clogged", j>>

\* C25: a handler that finds the responses channel full drops its response:
\* the channel is as before, the handler is back at recv, the engine runs,
\* and the saturation is logged if and only if the handler's flag was not
\* set; the flag, once set, stays set, so each handler logs at most once.
\* A handler that finds the channel closed ends the engine's loop with an
\* error in the same step.
C25_ResponseFullOrClosed ==
    [][ \A j \in Jids :
          /\ (/\ HandlerSendStep(j) /\ "response_rx" \notin closed
               /\ Len(response_rx) >= RESPONSES_CHANNEL_SIZE)
                => /\ response_rx' = response_rx
                   /\ h_pc'[j] = "recv" /\ engine_result' = "running"
                   /\ h_clogged'[j]
                   /\ HandlerCloggedLogged(log', j) <=> ~h_clogged[j]
          /\ (HandlerSendStep(j) /\ "response_rx" \in closed)
                => engine_result' = "err"
          /\ HandlerCloggedLogged(log', j) => (~h_clogged[j] /\ h_clogged'[j])
          /\ (h_clogged[j] /\ engine_result' = "running") => h_clogged'[j] ]_vars

\* The handler of a@x has just dropped the in-band error response of a
\* failed call on a full channel without logging the saturation: its flag
\* was set by an earlier drop.
C25_Witness ==
    /\ h_clogged["a@x"] /\ h_pc["a@x"] = "recv"
    /\ log = <<<<"warn", "error from chatbot API: timeout", "a@x">>>>
    /\ Len(response_rx) = RESPONSES_CHANNEL_SIZE
    /\ \A i \in 1..Len(response_rx) : response_rx[i].response = "hi"

\* ------------------------------------------------- requests and handlers
\* C26: every request in the channel of a handler, and the request a
\* handler works on, carries the jid the handler was created for; no handler
\* is given a request of another peer, so the jid check of handle_request
\* never fails.
C26_OwnRequestsOnly ==
    \A j \in Jids :
        /\ \A r \in ItemsOf(handler_rx[j]) : r.jid = j
        /\ h_req[j] # NoRequest => h_req[j].jid = j
        /\ (handler_rx[j] # <<>> \/ h_req[j] # NoRequest) => j \in request_txs

\* The handlers of both peers work on a request while further requests wait
\* in their channels.
C26_Witness ==
    /\ h_pc["a@x"] = "completion" /\ h_pc["b@x"] = "completion"
    /\ Len(handler_rx["a@x"]) = REQUESTS_CHANNEL_SIZE
    /\ handler_rx["b@x"] # <<>>

\* ------------------------------------------------------- bounded channels
\* C27: the requests channel and the channel of every handler hold at most
\* REQUESTS_CHANNEL_SIZE messages and the responses channel at most
\* RESPONSES_CHANNEL_SIZE; no sender waits for room: whatever the channels
\* hold, the agent can process a message it receives, the engine can hand on
\* a request it has received and a handler can finish the call it is in.
C27_BoundedChannels ==
    /\ Len(request_rx) <= REQUESTS_CHANNEL_SIZE
    /\ Len(response_rx) <= RESPONSES_CHANNEL_SIZE
    /\ \A j \in Jids : Len(handler_rx[j]) <= REQUESTS_CHANNEL_SIZE
    /\ (Running /\ client = "connected")
          => \A message \in ChatStanzas :
                ENABLED (\E tag \in Tags : EvStanza(message, tag))
    /\ (Running /\ request_rx # <<>>)
          => \A created \in BOOLEAN : ENABLED EngineRecv(created)
    /\ \A j \in Jids : (Running /\ h_pc[j] = "completion")
          => \A result \in CompletionResults : ENABLED HandlerCompletion(j, result)

\* All three channels of a@x are full while its handler is in a call.
C27_Witness ==
    /\ Len(request_rx) = REQUESTS_CHANNEL_SIZE
    /\ Len(response_rx) = RESPONSES_CHANNEL_SIZE
    /\ Len(handler_rx["a@x"]) = REQUESTS_CHANNEL_SIZE
    /\ h_pc["a@x"] = "completion"
    /\ client = "connected"

\* ------------------------------------------------ peers served in parallel
\* C28: while the handler of one peer is in a completion call, the engine
\* can dispatch the next request, the handler of another peer can take a
\* request, finish its own call and have its response delivered; the
\* requests of the first peer that arrive meanwhile wait in its own channel:
\* as long as the call lasts the handler keeps its request and nothing leaves
\* its channel.
C28_PeersIndependent ==
    [][ \A slow \in AllowedUsers : h_pc[slow] = "completion" =>
          /\ h_pc'[slow] = "completion"
                => /\ h_req'[slow] = h_req[slow]
                   /\ IsPrefix(handler_rx[slow], handler_rx'[slow])
          /\ request_rx # <<>> => ENABLED EngineRecv(TRUE)
          /\ (online /\ response_rx # <<>>) => ENABLED ProcessResponse
          /\ \A other \in AllowedUsers \ {slow} :
                /\ (h_pc[other] = "recv" /\ handler_rx[other] # <<>>)
                      => ENABLED HandlerRecv(other)
                /\ h_pc[other] = "completion"
                      => \A result \in CompletionResults :
                            ENABLED HandlerCompletion(other, result) ]_vars

\* The response to b@x has just been delivered while the handler of a@x is
\* in a call and a further request of a@x waits in its channel.
C28_Witness ==
    /\ h_pc["a@x"] = "completion"
    /\ handler_rx["a@x"] # <<>>
    /\ HasOp(ops, <<"pending_remove", "b@x">>)

\* ------------------------------------------------- one call at a time
\* The handler of j takes a request out of its channel.
HandlerTakes(j) ==
    /\ handler_rx[j] # <<>>
    /\ handler_rx'[j] = Tail(handler_rx[j])

\* C29: a handler is in at most one completion call: it holds a request
\* exactly while it is in a call; it takes a request out of its channel only
\* when it holds none, and that request is the one it then works on; the
\* call ends with the response to that request appended to the responses
\* channel, or dropped because the channel is full, and only then can the
\* next request be taken.
C29_OneCallPerPeer ==
    [][ (engine_result' = "running" /\ xmpp_result' = "running") =>
        \A j \in Jids :
          /\ h_pc[j] = "completion" <=> h_req[j] # NoRequest
          /\ h_pc'[j] = "completion" <=> h_req'[j] # NoRequest
          /\ HandlerTakes(j)
                => /\ h_pc[j] = "recv" /\ h_req[j] = NoRequest
                   /\ h_pc'[j] = "completion"
                   /\ h_req'[j] = Head(handler_rx[j])
          /\ (h_pc[j] = "completion" /\ h_req'[j] # h_req[j])
                => /\ h_pc'[j] = "recv" /\ h_req'[j] = NoRequest
                   /\ handler_rx'[j] = handler_rx[j]
                   /\ \/ /\ Len(response_rx') = Len(response_rx) + 1
                         /\ response_rx'[Len(response_rx')].jid = h_req[j].jid
                         /\ response_rx'[Len(response_rx')].tag = h_req[j].tag
                      \/ /\ response_rx' = response_rx
                         /\ Len(response_rx) = RESPONSES_CHANNEL_SIZE ]_vars

\* The handler of a@x is in a call while its channel is full.
C29_Witness ==
    /\ h_pc["a@x"] = "completion"
    /\ h_req["a@x"].tag = "r1"
    /\ Len(handler_rx["a@x"]) = REQUESTS_CHANNEL_SIZE
    /\ Len(response_rx) = RESPONSES_CHANNEL_SIZE

\* ------------------------------------------- the requests channel, full
\* The agent has logged the saturation of the requests channel in `events`.
RequestsCloggedLogged(events) ==
    {i \in 1..Len(events) :
        events[i][1] = "error" /\ events[i][2] = "requests channel clogged"}

\* C30: the agent has one saturation flag for all peers: a step logs
\* "requests channel clogged" at most once and only if it sets the flag; the
\* flag, once set, stays set as long as the agent runs, so the message is
\* logged at most once in a run, and a request of any peer that later finds
\* the channel full is dropped without it.
C30_OneCloggedLog ==
    [][ /\ Cardinality(RequestsCloggedLogged(log')) <= 1
        /\ RequestsCloggedLogged(log') # {} => (~clogged_engine /\ clogged_engine')
        /\ (clogged_engine /\ xmpp_result' = "running" /\ engine_result' = "running")
              => clogged_engine'
        /\ \A message \in PeerStanzas :
              (/\ EvStanza(message, NoTag) /\ Classify(message) = "request"
               /\ Len(request_rx) >= REQUESTS_CHANNEL_SIZE)
                => /\ request_rx' = request_rx /\ clogged_engine'
                   /\ RequestsCloggedLogged(log') # {} <=> ~clogged_engine ]_vars

\* A request of b@x has just been dropped on the full requests channel
\* without the log message: the flag was set by an earlier drop.
C30_Witness ==
    /\ clogged_engine
    /\ Len(request_rx) = REQUESTS_CHANNEL_SIZE
    /\ ops = <<>>
    /\ log # <<>> /\ log[1] = <<"debug", "request", "b@x">>
    /\ RequestsCloggedLogged(log) = {}
    /\ \E i \in 1..Len(request_rx) : request_rx[i].jid = "a@x"

RequestsDrained ==
    Running /\ "request_tx" \in closed /\ request_rx = <<>>

\* C32: once every sender of requests is gone and the requests channel is
\* empty, the engine's loop can return, whatever its handlers hold or work
\* on; it returns Ok only in such a step, and the step drops the handlers
\* with their channels and the requests in them; no step follows the return,
\* so these requests yield no response.  Under fair scheduling, once the
\* senders are gone the loop returns.
C32_ReturnsOkWhenDrained ==
    /\ [][ /\ RequestsDrained => ENABLED RequestsClosed
           /\ engine_result' = "ok" => (RequestsDrained /\ AllDropped')
           /\ (RequestsDrained /\ \A j \in Jids : "response_rx" \in closed
                                                    => h_pc[j] # "completion")
                 => engine_result' \in {"running", "ok"}
           /\ engine_result = "running" ]_vars
    /\ ("request_tx" \in closed) ~> (engine_result # "running")

\* The engine's loop has returned Ok and its handlers are gone.
C32_Witness == engine_result = "ok" /\ xmpp_result = "running" /\ AllDropped

====
